---- MODULE Spec2Model ----
(***************************************************************************)
(* Model of Server.js: the express handlers GET /api/courses,             *)
(* GET /api/courses/:id and POST /api/enroll, the helper sendMailSafe,    *)
(* and the two collaborators they talk to (the MySQL pool `db` and the    *)
(* nodemailer `transporter`).  Every await is a suspension point, also    *)
(* the await of a sendMailSafe call that has returned already: a step     *)
(* runs one continuation, from the settling of the awaited promise to the *)
(* next await, and the continuations of other requests run in between.    *)
(* MySQL stores a row before the promise of the INSERT resolves.          *)
(***************************************************************************)
EXTENDS Integers, Sequences, FiniteSets, TLC

VARIABLES transporter, courses, enrollments, nextId, req

vars == <<transporter, courses, enrollments, nextId, req>>

(***************************************************************************)
(* Bounds of the model.                                                    *)
(***************************************************************************)
\* number of requests one behaviour issues (they run concurrently)
MaxReqs == 2
\* largest course id of the courses table
MaxCourseId == 1
\* longest syllabus text drawn from the alphabet
MaxLen == 3
\* longest syllabus item sequence that is encoded and stored
MaxItems == 2

Reqs == 1..MaxReqs

(***************************************************************************)
(* JavaScript values, as the JSON body parser and the mysql2 driver hand   *)
(* them to the handlers.  A string is its sequence of characters.          *)
(***************************************************************************)
Undefined == [t |-> "undefined"]
Null == [t |-> "null"]
Bool(b) == [t |-> "boolean", b |-> b]
\* a number is a double.  A finite one is sign * mant * 2^exp, mant its
\* significand in binary, most significant bit first, in its one normal
\* form: mant neither begins nor ends with 0, and zero has no bit, sign 1
\* and exp 0; the doubles beyond every number are inf = TRUE
Number(sign, mant, exp) ==
    [t |-> "number", inf |-> FALSE, sign |-> sign, mant |-> mant, exp |-> exp]
Zero == Number(1, <<>>, 0)
Infinity(sign) ==
    [t |-> "number", inf |-> TRUE, sign |-> sign, mant |-> <<>>, exp |-> 0]
\* the index of the first and of the last element of s that is not 0
\* (0 when there is none)
FirstSet(s) ==
    IF \A k \in 1..Len(s) : s[k] = 0 THEN 0
    ELSE CHOOSE k \in 1..Len(s) : s[k] # 0 /\ \A j \in 1..(k - 1) : s[j] = 0
LastSet(s) ==
    IF \A k \in 1..Len(s) : s[k] = 0 THEN 0
    ELSE CHOOSE k \in 1..Len(s) : s[k] # 0 /\ \A j \in (k + 1)..Len(s) : s[j] = 0
Normal(sign, mant, exp) ==
    IF FirstSet(mant) = 0 THEN Zero
    ELSE Number(sign, SubSeq(mant, FirstSet(mant), LastSet(mant)),
                exp + Len(mant) - LastSet(mant))
RECURSIVE NatBits(_)
NatBits(n) == IF n = 0 THEN <<>> ELSE Append(NatBits(n \div 2), n % 2)
\* the number of an integer (below 2^31, which a significand holds)
Num(n) == IF n < 0 THEN Normal(0 - 1, NatBits(0 - n), 0) ELSE Normal(1, NatBits(n), 0)
Str(s) == [t |-> "string", s |-> s]
Arr(items) == [t |-> "array", items |-> items]
Obj(members) == [t |-> "object", members |-> members]
EmptyArr == Arr(<<>>)

\* ToBoolean: what `!v` and `v && ...` test (NaN cannot come out of JSON).
Truthy(v) ==
    CASE v.t = "undefined" -> FALSE
      [] v.t = "null" -> FALSE
      [] v.t = "boolean" -> v.b
      [] v.t = "number" -> v.inf \/ v.mant # <<>>
      [] v.t = "string" -> Len(v.s) > 0
      [] OTHER -> TRUE

\* typeof v === "string"
IsString(v) == v.t = "string"

(***************************************************************************)
(* JSON.parse on a character sequence: recursive descent over the JSON     *)
(* grammar (whitespace, arrays, objects, strings with their escapes,       *)
(* numbers with fraction and exponent, the three literals).  The result is *)
(* [ok, val, pos]; ok=FALSE is the SyntaxError JSON.parse throws.          *)
(* A character is a one-character string; a character outside printable    *)
(* ASCII other than TAB, LF, FF and CR is written by its code unit,        *)
(* "U+0001", "U+00E9".  A number token is rounded to the nearest double,  *)
(* ties to the even significand, as the parser does: 53 bits, fewer below *)
(* 2^(-1022), zero from 2^(-1075) down and Infinity from 2^1024 - 2^970   *)
(* on.                                                                    *)
(***************************************************************************)
Digits == <<"0", "1", "2", "3", "4", "5", "6", "7", "8", "9">>
IsDigit(c) == \E d \in 1..10 : Digits[d] = c
DigitVal(c) == (CHOOSE d \in 1..10 : Digits[d] = c) - 1
IsWs(c) == c \in {" ", "\t", "\n", "\r"}

ParseFail == [ok |-> FALSE, val |-> Undefined, pos |-> 0]
ParseOk(v, p) == [ok |-> TRUE, val |-> v, pos |-> p]

At(t, i) == IF i >= 1 /\ i <= Len(t) THEN t[i] ELSE "<eof>"

RECURSIVE SkipWs(_, _)
SkipWs(t, i) == IF IsWs(At(t, i)) THEN SkipWs(t, i + 1) ELSE i

\* the digits of a number token that starts at i: the position after them
DigitsEnd(t, i) ==
    IF \A k \in i..Len(t) : IsDigit(t[k]) THEN Len(t) + 1
    ELSE CHOOSE j \in i..Len(t) : ~IsDigit(t[j]) /\ \A k \in i..(j - 1) : IsDigit(t[k])

\* the values of the digits t[i..j-1]
ScanDigits(t, i, j) == SubSeq([k \in 1..(j - i) |-> DigitVal(t[i + k - 1])], 1, j - i)

\* the value of the digits of an exponent; past nine digits it is beyond
\* every double whatever the significand
RECURSIVE DigitsValue(_)
DigitsValue(d) == IF d = <<>> THEN 0 ELSE DigitsValue(SubSeq(d, 1, Len(d) - 1)) * 10 + d[Len(d)]
ExponentValue(d) ==
    IF FirstSet(d) = 0 THEN 0
    ELSE IF Len(d) - FirstSet(d) >= 9 THEN 1000000000
    ELSE DigitsValue(SubSeq(d, FirstSet(d), Len(d)))

(***************************************************************************)
(* From decimal to binary, exactly.  The decimal digits are grouped by     *)
(* seven into limbs on both sides of the decimal point.  Dividing the      *)
(* integer part by 2^7 gives seven bits, its remainder, and a quotient     *)
(* whose limbs each depend on two limbs only (10^7 is a multiple of 2^7);  *)
(* multiplying the fraction by 2^7 gives seven bits, its integer part, and *)
(* a fraction likewise.                                                    *)
(***************************************************************************)
LimbDigits == 7
Base == 10000000
Radix == 128
SignificandBits == 53
LeastExponent == 0 - 1074
TopExponent == 1024

Zeros(n) == SubSeq([k \in 1..n |-> 0], 1, n)

\* the digit of weight 10^w in digits * 10^e
DecimalDigit(digits, e, w) ==
    IF w >= e /\ w < e + Len(digits) THEN digits[Len(digits) - (w - e)] ELSE 0

\* the limb whose digits have the weights 10^hi down to 10^(hi - 6)
Limb(digits, e, hi) ==
    ((((((DecimalDigit(digits, e, hi) * 10 + DecimalDigit(digits, e, hi - 1)) * 10
        + DecimalDigit(digits, e, hi - 2)) * 10 + DecimalDigit(digits, e, hi - 3)) * 10
        + DecimalDigit(digits, e, hi - 4)) * 10 + DecimalDigit(digits, e, hi - 5)) * 10
        + DecimalDigit(digits, e, hi - 6))

\* the integer part and the fraction of digits * 10^e, most significant
\* limb first
IntegerLimbs(digits, e) ==
    LET n == IF Len(digits) + e <= 0 THEN 0
             ELSE (Len(digits) + e + LimbDigits - 1) \div LimbDigits
    IN  SubSeq([k \in 1..n |-> Limb(digits, e, LimbDigits * (n - k) + LimbDigits - 1)], 1, n)
FractionLimbs(digits, e) ==
    LET n == IF e >= 0 THEN 0 ELSE (LimbDigits - 1 - e) \div LimbDigits
    IN  SubSeq([k \in 1..n |-> Limb(digits, e, 0 - LimbDigits * (k - 1) - 1)], 1, n)

\* the seven bits of r < 2^7
Bits7(r) ==
    <<(r \div 64) % 2, (r \div 32) % 2, (r \div 16) % 2, (r \div 8) % 2,
      (r \div 4) % 2, (r \div 2) % 2, r % 2>>

\* an integer divided by 2^7: the quotient, and the remainder
ShiftRight7(n) ==
    SubSeq([k \in 1..Len(n) |->
               ((IF k > 1 THEN n[k - 1] % Radix ELSE 0) * Base + n[k]) \div Radix],
           1, Len(n))
Low7(n) == n[Len(n)] % Radix

\* a fraction multiplied by 2^7: the fraction of it, and the integer part
ShiftLeft7(f) ==
    SubSeq([k \in 1..Len(f) |->
               (f[k] * Radix + (IF k < Len(f) THEN (f[k + 1] * Radix) \div Base ELSE 0)) % Base],
           1, Len(f))
High7(f) == (f[1] * Radix) \div Base

\* the bits of an integer, most significant first (after some zeros)
RECURSIVE IntegerBits(_)
IntegerBits(n) ==
    IF FirstSet(n) = 0 THEN <<>>
    ELSE LET n1 == ShiftRight7(n)
             n2 == ShiftRight7(n1)
             n3 == ShiftRight7(n2)
         IN  IntegerBits(ShiftRight7(n3))
                 \o Bits7(Low7(n3)) \o Bits7(Low7(n2)) \o Bits7(Low7(n1)) \o Bits7(Low7(n))

\* the bits of a fraction f after the nf bits before them, as far as a
\* double can tell: to the end of the fraction, to SignificandBits + 1 bits
\* from the leading one on (have counts them), or past the bit of
\* 2^(LeastExponent - 1).  rest: the fraction goes on after them
RECURSIVE FractionBits(_, _, _)
FractionBits(f, nf, have) ==
    IF FirstSet(f) = 0 \/ have > SignificandBits \/ nf >= 1 - LeastExponent
    THEN [bits |-> <<>>, have |-> have, rest |-> FirstSet(f) # 0]
    ELSE LET f1 == ShiftLeft7(f)
             f2 == ShiftLeft7(f1)
             f3 == ShiftLeft7(f2)
             chunk == Bits7(High7(f)) \o Bits7(High7(f1)) \o Bits7(High7(f2))
                          \o Bits7(High7(f3))
             h == IF have > 0 THEN have + 28
                  ELSE IF FirstSet(chunk) = 0 THEN 0 ELSE 29 - FirstSet(chunk)
             r == FractionBits(ShiftLeft7(f3), nf + 28, h)
         IN  [bits |-> chunk \o r.bits, have |-> r.have, rest |-> r.rest]

\* a significand plus one
Increment(m) ==
    LET z == IF \A k \in 1..Len(m) : m[k] = 1 THEN 0
             ELSE CHOOSE k \in 1..Len(m) : m[k] = 0 /\ \A j \in (k + 1)..Len(m) : m[j] = 1
    IN  IF z = 0 THEN <<1>> \o Zeros(Len(m))
        ELSE SubSeq(m, 1, z - 1) \o <<1>> \o Zeros(Len(m) - z)

\* the double nearest to the number whose integer part has the bits ib (a
\* one first) and whose fraction has the bits fr.bits: the significand is
\* cut after SignificandBits bits, or at the bit of 2^LeastExponent, and
\* goes up when what is cut off is more than half of its last bit, or is
\* half of it and the last bit is 1
RoundToDouble(sign, ib, fr) ==
    LET bits == ib \o fr.bits
        n == Len(bits)
        have == IF ib # <<>> THEN n ELSE fr.have
        l == n - have + 1
        top == Len(ib) - l
        q == IF top - (SignificandBits - 1) > LeastExponent
             THEN top - (SignificandBits - 1) ELSE LeastExponent
        iq == Len(ib) - q
        m == IF iq >= l THEN SubSeq(bits, l, iq) ELSE <<>>
        more == fr.rest \/ \E j \in (iq + 2)..n : bits[j] = 1
        up == bits[iq + 1] = 1 /\ (more \/ (m # <<>> /\ m[Len(m)] = 1))
        v == IF have = 0 THEN Zero
             ELSE IF iq >= n THEN Normal(sign, SubSeq(bits, l, n), Len(ib) - n)
             ELSE Normal(sign, IF up THEN Increment(m) ELSE m, q)
    IN  IF v.exp + Len(v.mant) > TopExponent THEN Infinity(sign) ELSE v

\* the double nearest to sign * digits * 10^e; a number of 10^309 and more
\* is Infinity and one below 10^(-324) is zero whatever its digits
ToDouble(sign, digits, e) ==
    LET d == SubSeq(digits, FirstSet(digits), LastSet(digits))
        e1 == e + Len(digits) - LastSet(digits)
        mag == e1 + Len(d) - 1
        all == IntegerBits(IntegerLimbs(d, e1))
        ib == IF FirstSet(all) = 0 THEN <<>> ELSE SubSeq(all, FirstSet(all), Len(all))
    IN  IF FirstSet(digits) = 0 THEN Zero
        ELSE IF mag >= 309 THEN Infinity(sign)
        ELSE IF mag < 0 - 324 THEN Zero
        ELSE RoundToDouble(sign, ib, FractionBits(FractionLimbs(d, e1), 0, Len(ib)))

\* a number token: [-] int [. digits] [(e|E) [+|-] digits]; "0" stands
\* alone as an integer part (no leading zeros)
ParseNumber(t, i) ==
    LET neg == At(t, i) = "-"
        s == IF neg THEN i + 1 ELSE i
        ie == IF At(t, s) = "0" THEN s + 1 ELSE DigitsEnd(t, s)
        hasFrac == At(t, ie) = "."
        fe == IF hasFrac THEN DigitsEnd(t, ie + 1) ELSE ie
        hasExp == At(t, fe) \in {"e", "E"}
        xs == IF hasExp /\ At(t, fe + 1) \in {"+", "-"} THEN fe + 2 ELSE fe + 1
        xe == IF hasExp THEN DigitsEnd(t, xs) ELSE fe
        x == IF hasExp THEN ExponentValue(ScanDigits(t, xs, xe)) ELSE 0
        frac == IF hasFrac THEN ScanDigits(t, ie + 1, fe) ELSE <<>>
        e == (IF hasExp /\ At(t, fe + 1) = "-" THEN 0 - x ELSE x) - Len(frac)
    IN  IF ie = s \/ (hasFrac /\ fe = ie + 1) \/ (hasExp /\ xe = xs) THEN ParseFail
        ELSE ParseOk(ToDouble(IF neg THEN 0 - 1 ELSE 1, ScanDigits(t, s, ie) \o frac, e), xe)

\* the characters below U+0020, which a string may not hold unescaped
ControlChars ==
    {"\t", "\n", "\f", "\r",
     "U+0000", "U+0001", "U+0002", "U+0003", "U+0004", "U+0005", "U+0006",
     "U+0007", "U+0008", "U+0009", "U+000A", "U+000B", "U+000C", "U+000D",
     "U+000E", "U+000F", "U+0010", "U+0011", "U+0012", "U+0013", "U+0014",
     "U+0015", "U+0016", "U+0017", "U+0018", "U+0019", "U+001A", "U+001B",
     "U+001C", "U+001D", "U+001E", "U+001F"}

HexDigits == <<"0", "1", "2", "3", "4", "5", "6", "7", "8", "9",
               "A", "B", "C", "D", "E", "F">>
HexLower == <<"0", "1", "2", "3", "4", "5", "6", "7", "8", "9",
              "a", "b", "c", "d", "e", "f">>
IsHex(c) == \E d \in 1..16 : HexDigits[d] = c \/ HexLower[d] = c
HexVal(c) == (CHOOSE d \in 1..16 : HexDigits[d] = c \/ HexLower[d] = c) - 1

\* the printable ASCII characters, U+0020 to U+007E, in order (the grave
\* accent is written by its code, as the characters outside the table are)
Ascii ==
    <<" ", "!", "\"", "#", "$", "%", "&", "'", "(", ")", "*", "+", ",", "-",
      ".", "/", "0", "1", "2", "3", "4", "5", "6", "7", "8", "9", ":", ";",
      "<", "=", ">", "?", "@", "A", "B", "C", "D", "E", "F", "G", "H", "I",
      "J", "K", "L", "M", "N", "O", "P", "Q", "R", "S", "T", "U", "V", "W",
      "X", "Y", "Z", "[", "\\", "]", "^", "_", "U+0060", "a", "b", "c", "d", "e",
      "f", "g", "h", "i", "j", "k", "l", "m", "n", "o", "p", "q", "r", "s",
      "t", "u", "v", "w", "x", "y", "z", "{", "|", "}", "~">>

\* the character of the code unit written by four hex digits
CodeUnit(a, b, c, d) ==
    LET code == ((HexVal(a) * 16 + HexVal(b)) * 16 + HexVal(c)) * 16 + HexVal(d)
    IN  IF code >= 32 /\ code <= 126 THEN Ascii[code - 31]
        ELSE IF code = 9 THEN "\t"
        ELSE IF code = 10 THEN "\n"
        ELSE IF code = 12 THEN "\f"
        ELSE IF code = 13 THEN "\r"
        ELSE "U+" \o HexDigits[HexVal(a) + 1] \o HexDigits[HexVal(b) + 1]
                  \o HexDigits[HexVal(c) + 1] \o HexDigits[HexVal(d) + 1]

\* the character a one-letter escape stands for ("" when it is no escape)
Escaped(c) ==
    CASE c = "\"" -> "\""
      [] c = "\\" -> "\\"
      [] c = "/" -> "/"
      [] c = "b" -> "U+0008"
      [] c = "f" -> "\f"
      [] c = "n" -> "\n"
      [] c = "r" -> "\r"
      [] c = "t" -> "\t"
      [] OTHER -> ""

\* the string token whose opening quote is before i, read on to acc: the
\* closing quote ends it, an unescaped control character or a bad escape
\* is a SyntaxError
RECURSIVE ScanString(_, _, _)
ScanString(t, i, acc) ==
    LET c == At(t, i)
    IN  IF i > Len(t) \/ c \in ControlChars THEN ParseFail
        ELSE IF c = "\"" THEN ParseOk(Str(acc), i + 1)
        ELSE IF c # "\\" THEN ScanString(t, i + 1, Append(acc, c))
        ELSE IF At(t, i + 1) = "u"
             THEN IF i + 5 <= Len(t) /\ \A k \in 2..5 : IsHex(t[i + k])
                  THEN ScanString(t, i + 6,
                           Append(acc, CodeUnit(t[i + 2], t[i + 3], t[i + 4], t[i + 5])))
                  ELSE ParseFail
        ELSE IF Escaped(At(t, i + 1)) # ""
             THEN ScanString(t, i + 2, Append(acc, Escaped(At(t, i + 1))))
        ELSE ParseFail

ParseString(t, i) == ScanString(t, i + 1, <<>>)

ParseLiteral(t, i, word, v) ==
    IF i + Len(word) - 1 <= Len(t) /\ SubSeq(t, i, i + Len(word) - 1) = word
    THEN ParseOk(v, i + Len(word)) ELSE ParseFail

\* a later member with the same key replaces the earlier one
PutMember(m, k, v) == [x \in (DOMAIN m) \cup {k} |-> IF x = k THEN v ELSE m[x]]

RECURSIVE ParseValue(_, _)
RECURSIVE ParseElements(_, _, _)
RECURSIVE ParseMembers(_, _, _)

ParseValue(t, i) ==
    LET c == At(t, i)
    IN  CASE c = "[" ->
                LET j == SkipWs(t, i + 1)
                IN  IF At(t, j) = "]" THEN ParseOk(EmptyArr, j + 1)
                    ELSE ParseElements(t, j, <<>>)
          [] c = "{" ->
                LET j == SkipWs(t, i + 1)
                IN  IF At(t, j) = "}" THEN ParseOk(Obj(<<>>), j + 1)
                    ELSE ParseMembers(t, j, <<>>)
          [] c = "\"" -> ParseString(t, i)
          [] c = "t" -> ParseLiteral(t, i, <<"t", "r", "u", "e">>, Bool(TRUE))
          [] c = "f" -> ParseLiteral(t, i, <<"f", "a", "l", "s", "e">>, Bool(FALSE))
          [] c = "n" -> ParseLiteral(t, i, <<"n", "u", "l", "l">>, Null)
          [] c = "-" \/ IsDigit(c) -> ParseNumber(t, i)
          [] OTHER -> ParseFail

ParseElements(t, i, acc) ==
    LET r == ParseValue(t, i)
        j == SkipWs(t, r.pos)
    IN  IF ~r.ok THEN ParseFail
        ELSE IF At(t, j) = "," THEN ParseElements(t, SkipWs(t, j + 1), Append(acc, r.val))
        ELSE IF At(t, j) = "]" THEN ParseOk(Arr(Append(acc, r.val)), j + 1)
        ELSE ParseFail

ParseMembers(t, i, acc) ==
    LET k == IF At(t, i) = "\"" THEN ParseString(t, i) ELSE ParseFail
        c == SkipWs(t, k.pos)
        r == IF k.ok /\ At(t, c) = ":" THEN ParseValue(t, SkipWs(t, c + 1)) ELSE ParseFail
        j == SkipWs(t, r.pos)
    IN  IF ~r.ok THEN ParseFail
        ELSE IF At(t, j) = "," THEN ParseMembers(t, SkipWs(t, j + 1), PutMember(acc, k.val.s, r.val))
        ELSE IF At(t, j) = "}" THEN ParseOk(Obj(PutMember(acc, k.val.s, r.val)), j + 1)
        ELSE ParseFail

JSONParse(t) ==
    LET r == ParseValue(t, SkipWs(t, 1))
    IN  IF r.ok /\ SkipWs(t, r.pos) = Len(t) + 1 THEN r ELSE ParseFail

(***************************************************************************)
(* JSON.stringify of a syllabus: an array whose items are non-negative     *)
(* integers or strings without quotes, backslashes or control characters.  *)
(* This is how the stored syllabus text comes to be.                       *)
(***************************************************************************)
RECURSIVE NatText(_)
NatText(n) == IF n < 10 THEN <<Digits[n + 1]>> ELSE Append(NatText(n \div 10), Digits[(n % 10) + 1])
RECURSIVE BitsValue(_)
BitsValue(m) == IF m = <<>> THEN 0 ELSE 2 * BitsValue(SubSeq(m, 1, Len(m) - 1)) + m[Len(m)]
RECURSIVE Pow2(_)
Pow2(k) == IF k <= 0 THEN 1 ELSE 2 * Pow2(k - 1)
ItemText(v) ==
    IF v.t = "string" THEN <<"\"">> \o v.s \o <<"\"">>
    ELSE NatText(BitsValue(v.mant) * Pow2(v.exp))

RECURSIVE JoinItems(_)
JoinItems(xs) ==
    IF Len(xs) = 0 THEN <<>>
    ELSE IF Len(xs) = 1 THEN ItemText(xs[1])
    ELSE ItemText(xs[1]) \o <<",">> \o JoinItems(Tail(xs))

JSONStringify(xs) == <<"[">> \o JoinItems(xs) \o <<"]">>

(***************************************************************************)
(* A request: the position of its handler (pc), its inputs and locals,     *)
(* what it logged and what it sent back.                                   *)
(*   pc: idle | query | execute | insert | inserted | mail | returned |    *)
(*       done | uncaught                                                   *)
(*   store: none | pending | ok | failed   (the awaited db call)           *)
(***************************************************************************)
NoRequest ==
    [route |-> "none", pc |-> "idle", body |-> Undefined, id |-> 0,
     store |-> "none", insertId |-> 0, mails |-> <<>>, log |-> <<>>,
     responses |-> <<>>]

\* res.status(s).json(b), the last statement of a handler on every path
Respond(q, status, body) ==
    [q EXCEPT !.responses = Append(@, [status |-> status, body |-> body]),
              !.pc = "done"]

\* console.warn / console.error
Log(q, level, msg, to) ==
    [q EXCEPT !.log = Append(@, [level |-> level, msg |-> msg, to |-> to])]

(***************************************************************************)
(* sendMailSafe(to, subject, html).  A call is recorded in q.mails:        *)
(*   outcome: skipped | pending | sent | failed                            *)
(*   returned: pending | normal | thrown                                   *)
(***************************************************************************)
AdminAddress ==
    Str(<<"d", "e", "e", "p", "l", "e", "a", "r", "n", "e", "r", "a", "c", "a",
          "d", "e", "m", "y", "@", "g", "m", "a", "i", "l", ".", "c", "o", "m">>)

\* the call up to its await: the guard, or transporter.sendMail is called
SendMailSafeBegin(q, to) ==
    IF transporter = "null"
    THEN Log([q EXCEPT !.mails = Append(@, [to |-> to, outcome |-> "skipped",
                                             returned |-> "normal"])],
             "warn", "Skipping email", to)
    ELSE [q EXCEPT !.mails = Append(@, [to |-> to, outcome |-> "pending",
                                        returned |-> "pending"])]

\* a rejected send that is logged and thrown on to the caller
SendMailSafeSettleRethrow(q, ok) ==
    LET n == Len(q.mails)
    IN  IF ok
        THEN [q EXCEPT !.mails[n].outcome = "sent", !.mails[n].returned = "normal"]
        ELSE Log([q EXCEPT !.mails[n].outcome = "failed",
                           !.mails[n].returned = "thrown"],
                 "error", "Failed to send email", q.mails[n].to)

\* the awaited transporter.sendMail settles: resolved, or rejected and caught
SendMailSafeSettle(q, ok) ==
    LET n == Len(q.mails)
    IN  IF ok
        THEN [q EXCEPT !.mails[n].outcome = "sent", !.mails[n].returned = "normal"]
        ELSE Log([q EXCEPT !.mails[n].outcome = "failed",
                           !.mails[n].returned = "normal"],
                 "error", "Failed to send email", q.mails[n].to)

(***************************************************************************)
(* GET /api/courses                                                        *)
(***************************************************************************)
ListResolved(q, results) ==
    Respond([q EXCEPT !.store = "ok"], 200, [rows |-> results])

ListRejected(q) ==
    Respond([q EXCEPT !.store = "failed"], 500, [error |-> "Database error"])

(***************************************************************************)
(* GET /api/courses/:id                                                    *)
(***************************************************************************)
\* SELECT * FROM courses WHERE id = ?
SelectCourse(table, id) == SelectSeq(table, LAMBDA row : row.id = id)

\* a syllabus whose undecodable text is handed on as it is stored
DecodeSyllabusKeepText(course) ==
    IF Truthy(course.syllabus) /\ IsString(course.syllabus)
    THEN LET r == JSONParse(course.syllabus.s)
         IN  [course EXCEPT !.syllabus = IF r.ok THEN r.val ELSE course.syllabus]
    ELSE course

\* if (course.syllabus && typeof course.syllabus === "string") try/catch
DecodeSyllabus(course) ==
    IF Truthy(course.syllabus) /\ IsString(course.syllabus)
    THEN LET r == JSONParse(course.syllabus.s)
         IN  [course EXCEPT !.syllabus = IF r.ok THEN r.val ELSE EmptyArr]
    ELSE course

\* an empty result set answered as a server error
CourseResolvedNoNotFound(q, results) ==
    LET q1 == [q EXCEPT !.store = "ok"]
    IN  IF Len(results) = 0
        THEN Respond(Log(q1, "error", "Error fetching course by ID", Undefined),
                     500, [error |-> "Internal server error"])
        ELSE Respond(q1, 200, [course |-> DecodeSyllabus(results[1])])

CourseResolved(q, results) ==
    LET q1 == [q EXCEPT !.store = "ok"]
    IN  IF Len(results) = 0
        THEN Respond(q1, 404, [error |-> "Course not found"])
        ELSE Respond(q1, 200, [course |-> DecodeSyllabus(results[1])])

CourseRejected(q) ==
    Respond(Log([q EXCEPT !.store = "failed"], "error",
                "Error fetching course by ID", Undefined),
            500, [error |-> "Internal server error"])

(***************************************************************************)
(* POST /api/enroll                                                        *)
(***************************************************************************)
\* const { name, email, phone, status = "Pending", courseId } = req.body;
\* the default applies to an undefined status only
Locals(body) ==
    [name |-> body.name, email |-> body.email, phone |-> body.phone,
     status |-> IF body.status = Undefined THEN Str(<<"P", "e", "n", "d", "i", "n", "g">>)
                ELSE body.status,
     courseId |-> body.courseId]

\* the negation of  !name || !email || !phone || !courseId
Valid(l) == Truthy(l.name) /\ Truthy(l.email) /\ Truthy(l.phone) /\ Truthy(l.courseId)

\* the catch of the try of the handler
EnrollCatch(q) ==
    Respond(Log(q, "error", "Enrollment Error", Undefined), 500,
            [success |-> FALSE, message |-> "Server error, please try again later"])

\* a response that carries result.affectedRows as the id
EnrollCreatedAffectedRows(q) ==
    Respond(q, 201, [success |-> TRUE,
                     message |-> "Enrollment successful, confirmation email sent",
                     enrollmentId |-> 1])

EnrollCreated(q) ==
    Respond(q, 201, [success |-> TRUE,
                     message |-> "Enrollment successful, confirmation email sent",
                     enrollmentId |-> q.insertId])

\* the handler at `await sendMailSafe(...)`: sendMailSafe is suspended in
\* transporter.sendMail (mail), or it has returned and the handler waits
\* for its own continuation (returned)
EnrollAwaitMail(q) ==
    [q EXCEPT !.pc = IF q.mails[Len(q.mails)].returned = "pending"
                     THEN "mail" ELSE "returned"]

\* a handler that gives up on the second email when the first one failed
EnrollResumeStopOnFailure(q) ==
    LET m == q.mails[Len(q.mails)]
    IN  IF m.returned = "thrown" THEN EnrollCatch(q)
        ELSE IF Len(q.mails) = 1 /\ m.outcome # "failed"
             THEN EnrollAwaitMail(SendMailSafeBegin(q, Locals(q.body).email))
        ELSE EnrollCreated(q)

\* the handler resumes after `await sendMailSafe(...)` (an error out of the
\* call would land in the catch): after the administrative email it calls
\* sendMailSafe for the enrollee, after that one it responds
EnrollResume(q) ==
    LET m == q.mails[Len(q.mails)]
    IN  IF m.returned = "thrown" THEN EnrollCatch(q)
        ELSE IF Len(q.mails) = 1
             THEN EnrollAwaitMail(SendMailSafeBegin(q, Locals(q.body).email))
        ELSE EnrollCreated(q)

\* the handler up to its first await; destructuring an undefined req.body
\* throws before the try is entered
EnrollBegin(q, body) ==
    LET q1 == [q EXCEPT !.route = "enroll", !.body = body]
    IN  IF body = Undefined THEN [q1 EXCEPT !.pc = "uncaught"]
        ELSE IF ~Valid(Locals(body))
             THEN Respond(q1, 400, [success |-> FALSE,
                                    message |-> "All fields are required"])
        ELSE [q1 EXCEPT !.pc = "insert", !.store = "pending"]

\* MySQL has stored the row under insertId; the result is on its way
EnrollStored(q, insertId) ==
    [q EXCEPT !.store = "ok", !.insertId = insertId, !.pc = "inserted"]

\* the INSERT resolved: the handler calls sendMailSafe for the
\* administrative address
EnrollInserted(q) == EnrollAwaitMail(SendMailSafeBegin(q, AdminAddress))

\* a failed INSERT that is swallowed, the handler going on to the emails
EnrollInsertRejectedGoOn(q) ==
    EnrollAwaitMail(SendMailSafeBegin([q EXCEPT !.store = "failed"], AdminAddress))

\* the INSERT rejected
EnrollInsertRejected(q) == EnrollCatch([q EXCEPT !.store = "failed"])

(***************************************************************************)
(* The enrollments table.                                                  *)
(***************************************************************************)
NewRow(id, l) ==
    [id |-> id, name |-> l.name, email |-> l.email, phone |-> l.phone,
     status |-> l.status, course_id |-> l.courseId]

\* a write that replaces the rows of the same course
InsertRowReplace(rows, row) ==
    Append(SelectSeq(rows, LAMBDA x : x.course_id # row.course_id), row)

InsertRow(rows, row) == Append(rows, row)

\* an id counter that is read and not advanced
NextInsertIdStuck(n) == n

\* AUTO_INCREMENT
NextInsertId(n) == n + 1

(***************************************************************************)
(* Inputs.                                                                 *)
(***************************************************************************)
\* :id of the path, as the number the store compares it to
ParamIds == 0..MaxCourseId

NameA == Str(<<"A">>)
EmailAB == Str(<<"a", "@", "b">>)
Phone5 == Str(<<"5">>)
StatusActive == Str(<<"A", "c", "t", "i", "v", "e">>)

\* req.body of the concurrent requests: no body, or an object whose fields
\* are missing, empty, zero or well-formed
Bodies ==
    {Undefined} \cup
    [name : {Undefined, NameA}, email : {Str(<<>>), EmailAB}, phone : {Phone5},
     status : {Undefined, StatusActive}, courseId : {Num(0), Num(1)}]

\* the values a JSON body can give a field
FieldVals ==
    {Undefined, Null, Str(<<>>), NameA, Num(0), Num(1), Bool(FALSE), Bool(TRUE)}

\* req.body of a single request, every field over every kind of value
AnyBodies ==
    {Undefined} \cup
    [name : FieldVals, email : FieldVals, phone : FieldVals,
     status : {Undefined, Null, StatusActive}, courseId : FieldVals]

\* the syllabus column: texts over an alphabet, number tokens and string
\* tokens over theirs, encoded item sequences, the texts of the
\* description, NULL, and a value the driver already decoded
Alphabet == {"[", "]", ",", "1", "0", " ", "{", "}"}
AlphabetTexts == UNION {[1..k -> Alphabet] : k \in 0..MaxLen}
NumberAlphabet == {"1", "5", "0", ".", "e", "-"}
NumberTexts == UNION {[1..k -> NumberAlphabet] : k \in 0..MaxLen}
StringAlphabet == {"a", "n", "\\", "\"", "\t"}
StringTexts ==
    {<<"\"">> \o t \o <<"\"">> : t \in UNION {[1..k -> StringAlphabet] : k \in 0..MaxLen}}
TextFraction == <<"[", "1", ".", "5", "]">>
TextExponent == <<"[", "1", "e", "2", ",", "-", "1", ".", "5", "E", "-", "3", "]">>
TextEscapes ==
    <<"[", "\"", "s", "a", "y", " ", "\\", "\"", "h", "i", "\\", "\"", "\\", "u",
      "0", "0", "4", "1", "\"", "]">>
TextRawTab == <<"[", "\"", "a", "\t", "b", "\"", "]">>
ItemVals == {Num(1), Num(2), Num(30), Str(<<"M", "L">>)}
ItemSeqs == UNION {[1..k -> ItemVals] : k \in 0..MaxItems}
Text123 == <<"[", "1", ",", "2", ",", "3", "]">>
TextNotJson == <<"{", "n", "o", "t", " ", "j", "s", "o", "n">>
SyllabusVals ==
    {Str(t) : t \in AlphabetTexts \cup NumberTexts \cup StringTexts
                    \cup {JSONStringify(xs) : xs \in ItemSeqs}
                    \cup {Text123, TextNotJson, TextFraction, TextExponent,
                          TextEscapes, TextRawTab}}
    \cup {Null, Arr(<<Num(1)>>)}

\* the courses table: rows with ids 1..n in id order
CourseTable(n, first) ==
    [i \in 1..n |-> [id |-> i, syllabus |-> IF i = 1 THEN first ELSE Str(Text123)]]

(***************************************************************************)
(* Initial states: the process after startup.  createTransport either      *)
(* returned a transport or threw and left transporter null.                *)
(***************************************************************************)
Init ==
    /\ transporter \in {"null", "configured"}
    /\ courses = CourseTable(MaxCourseId, Str(Text123))
    /\ enrollments = <<>>
    /\ nextId = 1
    /\ req = [r \in Reqs |-> NoRequest]

InitCourse ==
    /\ transporter = "configured"
    /\ \E n \in 0..MaxCourseId, first \in SyllabusVals : courses = CourseTable(n, first)
    /\ enrollments = <<>>
    /\ nextId = 1
    /\ req = [r \in Reqs |-> NoRequest]

(***************************************************************************)
(* Steps.                                                                  *)
(***************************************************************************)
ListStart(r) ==
    /\ req[r].pc = "idle"
    /\ req' = [req EXCEPT ![r] = [@ EXCEPT !.route = "list", !.pc = "query",
                                            !.store = "pending"]]
    /\ UNCHANGED <<transporter, courses, enrollments, nextId>>

ListQueryOk(r) ==
    /\ req[r].pc = "query"
    /\ req' = [req EXCEPT ![r] = ListResolved(@, courses)]
    /\ UNCHANGED <<transporter, courses, enrollments, nextId>>

ListQueryFail(r) ==
    /\ req[r].pc = "query"
    /\ req' = [req EXCEPT ![r] = ListRejected(@)]
    /\ UNCHANGED <<transporter, courses, enrollments, nextId>>

GetStart(r, id) ==
    /\ req[r].pc = "idle"
    /\ req' = [req EXCEPT ![r] = [@ EXCEPT !.route = "byId", !.id = id,
                                            !.pc = "execute", !.store = "pending"]]
    /\ UNCHANGED <<transporter, courses, enrollments, nextId>>

GetExecuteOk(r) ==
    /\ req[r].pc = "execute"
    /\ req' = [req EXCEPT ![r] = CourseResolved(@, SelectCourse(courses, req[r].id))]
    /\ UNCHANGED <<transporter, courses, enrollments, nextId>>

GetExecuteFail(r) ==
    /\ req[r].pc = "execute"
    /\ req' = [req EXCEPT ![r] = CourseRejected(@)]
    /\ UNCHANGED <<transporter, courses, enrollments, nextId>>

\* a request arrives with a req.body out of `bodies`
EnrollStart(r, bodies) ==
    /\ req[r].pc = "idle"
    /\ \E body \in bodies : req' = [req EXCEPT ![r] = EnrollBegin(@, body)]
    /\ UNCHANGED <<transporter, courses, enrollments, nextId>>

\* MySQL executes the INSERT
EnrollInsertOk(r) ==
    /\ req[r].pc = "insert"
    /\ enrollments' = InsertRow(enrollments, NewRow(nextId, Locals(req[r].body)))
    /\ nextId' = NextInsertId(nextId)
    /\ req' = [req EXCEPT ![r] = EnrollStored(@, nextId)]
    /\ UNCHANGED <<transporter, courses>>

\* the promise of the INSERT resolves and the handler resumes
EnrollInsertResolve(r) ==
    /\ req[r].pc = "inserted"
    /\ req' = [req EXCEPT ![r] = EnrollInserted(@)]
    /\ UNCHANGED <<transporter, courses, enrollments, nextId>>

EnrollInsertFail(r) ==
    /\ req[r].pc = "insert"
    /\ req' = [req EXCEPT ![r] = EnrollInsertRejected(@)]
    /\ UNCHANGED <<transporter, courses, enrollments, nextId>>

\* transporter.sendMail settles and sendMailSafe runs to its return
MailSettle(r, ok) ==
    /\ req[r].pc = "mail"
    /\ req' = [req EXCEPT ![r] = EnrollAwaitMail(SendMailSafeSettle(@, ok))]
    /\ UNCHANGED <<transporter, courses, enrollments, nextId>>

\* the handler resumes after a sendMailSafe call that has returned
EnrollMailResume(r) ==
    /\ req[r].pc = "returned"
    /\ req' = [req EXCEPT ![r] = EnrollResume(@)]
    /\ UNCHANGED <<transporter, courses, enrollments, nextId>>

\* any number of requests in flight at once, on all three routes
Next ==
    \E r \in Reqs :
        \/ ListStart(r)
        \/ ListQueryOk(r)
        \/ ListQueryFail(r)
        \/ \E id \in ParamIds : GetStart(r, id)
        \/ GetExecuteOk(r)
        \/ GetExecuteFail(r)
        \/ EnrollStart(r, Bodies)
        \/ EnrollInsertOk(r)
        \/ EnrollInsertResolve(r)
        \/ EnrollInsertFail(r)
        \/ \E ok \in BOOLEAN : MailSettle(r, ok)
        \/ EnrollMailResume(r)

Spec == Init /\ [][Next]_vars

\* one enrollment request, its body drawn from every kind of field value
NextEnroll ==
    \/ EnrollStart(1, AnyBodies)
    \/ EnrollInsertOk(1)
    \/ EnrollInsertResolve(1)
    \/ EnrollInsertFail(1)
    \/ \E ok \in BOOLEAN : MailSettle(1, ok)
    \/ EnrollMailResume(1)

SpecEnroll == Init /\ [][NextEnroll]_vars

\* one course read against every stored syllabus
NextCourse ==
    \/ ListStart(1)
    \/ ListQueryOk(1)
    \/ ListQueryFail(1)
    \/ \E id \in ParamIds : GetStart(1, id)
    \/ GetExecuteOk(1)
    \/ GetExecuteFail(1)

SpecCourse == InitCourse /\ [][NextCourse]_vars

(***************************************************************************)
(* Vocabulary of the properties.                                           *)
(***************************************************************************)
Enrolls == {r \in Reqs : req[r].route = "enroll" /\ req[r].body # Undefined}
ById == {r \in Reqs : req[r].route = "byId"}
Done(r) == req[r].pc = "done"
Status(r) == req[r].responses[1].status
Answer(r) == req[r].responses[1].body
Answered(r, status) == Done(r) /\ Len(req[r].responses) = 1 /\ Status(r) = status

\* a field that is absent (undefined, null) or the empty string
AbsentOrEmpty(v) == v \in {Undefined, Null, Str(<<>>)}
AllPresent(body) ==
    /\ ~AbsentOrEmpty(body.name)
    /\ ~AbsentOrEmpty(body.email)
    /\ ~AbsentOrEmpty(body.phone)
    /\ ~AbsentOrEmpty(body.courseId)

RowsWithId(id) == {i \in 1..Len(enrollments) : enrollments[i].id = id}
RowOf(r) == NewRow(req[r].insertId, Locals(req[r].body))
RowStored(r) == \E i \in 1..Len(enrollments) : enrollments[i] = RowOf(r)

FailedTo(r, to) ==
    {i \in 1..Len(req[r].mails) :
        req[r].mails[i].to = to /\ req[r].mails[i].outcome = "failed"}
FailureLogsTo(r, to) ==
    {i \in 1..Len(req[r].log) :
        req[r].log[i].msg = "Failed to send email" /\ req[r].log[i].to = to}

(***************************************************************************)
(* C1: a submission whose four fields are all present and non-empty and    *)
(* whose insert succeeded has its row in the store under a positive        *)
(* insert id, is never answered anything but 201 with success:true and     *)
(* that insert id, and is answered as soon as the emails are through,      *)
(* whether the transport is unconfigured, sends, or fails.                 *)
(***************************************************************************)
C1_ValidEnrollCreated ==
    \A r \in Enrolls :
        (AllPresent(req[r].body) /\ req[r].store = "ok") =>
            /\ req[r].insertId >= 1
            /\ RowStored(r)
            /\ req[r].pc \in {"inserted", "mail", "returned", "done"}
            /\ Done(r) =>
                  /\ Answered(r, 201)
                  /\ Answer(r).success = TRUE
                  /\ Answer(r).enrollmentId = req[r].insertId

C1_Witness ==
    \E r \in Enrolls :
        /\ Answered(r, 201)
        /\ req[r].insertId = 2
        /\ req[r].mails[1].outcome = "failed"
        /\ req[r].mails[2].outcome = "failed"

(***************************************************************************)
(* C2: a submission in which any of name, email, phone or courseId is      *)
(* absent or empty (a request without a body has none of them) is answered *)
(* 400 with success:false, no insert is issued, no email is attempted and  *)
(* the stored enrollments are as before.                                   *)
(***************************************************************************)
C2_MissingFieldRejected ==
    \A r \in Reqs :
        (req[r].route = "enroll" /\
         (req[r].body = Undefined \/ ~AllPresent(req[r].body))) =>
            /\ Answered(r, 400)
            /\ Answer(r).success = FALSE
            /\ req[r].store = "none"
            /\ req[r].mails = <<>>
            /\ enrollments = <<>>

(***************************************************************************)
(* C3: when the insert fails the response is 500 with success:false and    *)
(* sendMailSafe is never called for that request.                          *)
(***************************************************************************)
C3_InsertFailureNoMail ==
    \A r \in Enrolls :
        req[r].store = "failed" =>
            /\ Answered(r, 500)
            /\ Answer(r).success = FALSE
            /\ req[r].mails = <<>>
            /\ req[r].insertId = 0

C3_Witness ==
    \E r \in Enrolls : req[r].store = "failed" /\ Done(r) /\ transporter = "configured"

(***************************************************************************)
(* C4: no call of sendMailSafe throws to its caller: without a transporter *)
(* the call returns at once and transporter.sendMail is never called; a    *)
(* send that failed is caught and the call returns normally, so the        *)
(* caller never lands in its catch because of an email.                    *)
(***************************************************************************)
C4_SendMailSafeNeverThrows ==
    \A r \in Reqs :
        /\ \A i \in 1..Len(req[r].mails) :
              LET m == req[r].mails[i]
              IN  /\ m.returned # "thrown"
                  /\ (transporter = "null") => (m.outcome = "skipped" /\ m.returned = "normal")
                  /\ (m.outcome \in {"sent", "failed"}) => (m.returned = "normal")
                  /\ (m.returned = "pending") => (req[r].pc = "mail" /\ i = Len(req[r].mails))
        /\ (req[r].mails # <<>> /\ Done(r)) => Status(r) # 500

C4_Witness ==
    \E r \in Reqs :
        /\ req[r].pc = "returned"
        /\ Len(req[r].mails) = 1
        /\ req[r].mails[1].outcome = "failed"
        /\ req[r].mails[1].returned = "normal"

(***************************************************************************)
(* C5: after a successful insert both emails are attempted, the first to   *)
(* the administrative address and the second to the enrollee, whatever     *)
(* becomes of the first: a request whose first send is over and whose      *)
(* second is not begun is about to begin it, and is neither answered nor   *)
(* in its catch.  The response is 201 after both, the row stays in the     *)
(* store, and each recipient has exactly as many failure log lines as      *)
(* failed sends (one per failed attempt).                                  *)
(***************************************************************************)
C5_NotificationsIsolated ==
    \A r \in Enrolls :
        req[r].store = "ok" =>
            /\ RowStored(r)
            /\ Len(req[r].mails) <= 2
            /\ (req[r].mails = <<>>) <=> (req[r].pc = "inserted")
            /\ (Len(req[r].mails) >= 1) => (req[r].mails[1].to = AdminAddress)
            /\ (Len(req[r].mails) = 1 /\ req[r].mails[1].outcome # "pending")
                  => (req[r].pc = "returned")
            /\ (Len(req[r].mails) = 2) =>
                  /\ req[r].mails[2].to = req[r].body.email
                  /\ req[r].mails[1].outcome # "pending"
            /\ \A i \in 1..Len(req[r].mails) :
                  Cardinality(FailureLogsTo(r, req[r].mails[i].to))
                      = Cardinality(FailedTo(r, req[r].mails[i].to))
            /\ Done(r) =>
                  /\ Answered(r, 201)
                  /\ Len(req[r].mails) = 2
                  /\ req[r].mails[2].outcome # "pending"

C5_Witness ==
    \E r \in Enrolls :
        /\ Answered(r, 201)
        /\ req[r].mails[1].outcome = "failed"
        /\ req[r].mails[2].outcome = "sent"
        /\ RowStored(r)

(***************************************************************************)
(* C6: a finished GET /api/courses/:id has one of three outcomes: the      *)
(* lookup succeeded without a matching row and the answer is 404; it       *)
(* succeeded with a matching row and the answer is 200 with that row (its  *)
(* syllabus possibly decoded); the answer is 500 exactly when the lookup   *)
(* itself failed.                                                          *)
(***************************************************************************)
Matching(r) == {i \in 1..Len(courses) : courses[i].id = req[r].id}
StoredSyllabus(r) == courses[CHOOSE i \in Matching(r) : TRUE].syllabus
Found(r) == r \in ById /\ Done(r) /\ req[r].store = "ok" /\ Matching(r) # {}

C6_LookupOutcomes ==
    \A r \in ById :
        Done(r) =>
            /\ Len(req[r].responses) = 1
            /\ (req[r].store = "ok" /\ Matching(r) = {}) => (Status(r) = 404)
            /\ (req[r].store = "ok" /\ Matching(r) # {}) =>
                  /\ Status(r) = 200
                  /\ \E i \in Matching(r) :
                        [Answer(r).course EXCEPT !.syllabus = courses[i].syllabus]
                            = courses[i]
            /\ (Status(r) = 500) <=> (req[r].store = "failed")

C6_Witness ==
    \E r \in ById : Done(r) /\ req[r].store = "ok" /\ Matching(r) = {} /\ Status(r) = 404

(***************************************************************************)
(* C7 as stated: for a course that is found, the returned syllabus is the  *)
(* stored text decoded into its sequence of items, and whenever the stored *)
(* text cannot be decoded the returned syllabus is the empty sequence, the *)
(* answer being 200.                                                       *)
(***************************************************************************)
Items123 == <<Num(1), Num(2), Num(3)>>
Malformed ==
    {TextNotJson, <<"[">>, <<"]">>, <<"{">>, <<" ">>, <<"0", "1">>,
     <<"[", ",", "]">>, <<"[", "1", ",">>, <<"1", " ", "1">>, <<"[", "]", "]">>,
     <<"1", ".">>, <<"1", "e">>, <<".", "5">>, <<"-">>, <<"1", "e", "-">>,
     TextRawTab, <<"\"", "\t", "\"">>, <<"\"", "\\", "a", "\"">>,
     <<"\"", "\\", "\"">>, <<"\"", "a">>}

\* the significands of the doubles nearest to 0.0015 and to 0.1
Bits15 ==
    <<1, 1, 0, 0, 0, 1, 0, 0, 1, 0, 0, 1, 1, 0, 1, 1, 1, 0, 1, 0,
      0, 1, 0, 1, 1, 1, 1, 0, 0, 0, 1, 1, 0, 1, 0, 1, 0, 0, 1, 1,
      1, 1, 1, 1, 0, 1, 1, 1, 1, 1, 0, 1>>
Bits01 ==
    <<1, 1, 0, 0, 1, 1, 0, 0, 1, 1, 0, 0, 1, 1, 0, 0, 1, 1, 0, 0,
      1, 1, 0, 0, 1, 1, 0, 0, 1, 1, 0, 0, 1, 1, 0, 0, 1, 1, 0, 0,
      1, 1, 0, 0, 1, 1, 0, 0, 1, 1, 0, 1>>

\* what some stored texts decode to
Decoded ==
    {<<TextFraction, Arr(<<Number(1, <<1, 1>>, 0 - 1)>>)>>,
     <<TextExponent, Arr(<<Num(100), Number(0 - 1, Bits15, 0 - 61)>>)>>,
     <<TextEscapes, Arr(<<Str(<<"s", "a", "y", " ", "\"", "h", "i", "\"", "A">>)>>)>>,
     <<(<<"1", ".", "5">>), Number(1, <<1, 1>>, 0 - 1)>>,
     <<(<<"0", ".", "1">>), Number(1, Bits01, 0 - 55)>>,
     <<(<<"5", "e", "-", "1">>), Number(1, <<1>>, 0 - 1)>>,
     <<(<<"1", "e", "1">>), Num(10)>>,
     <<(<<"0", "e", "1">>), Num(0)>>,
     <<(<<"0", ".", "0">>), Num(0)>>,
     <<(<<"-", "0">>), Num(0)>>,
     <<(<<"\"", "\\", "n", "\"">>), Str(<<"\n">>)>>,
     <<(<<"\"", "\\", "\\", "\"">>), Str(<<"\\">>)>>,
     <<(<<"\"", "a", "n", "\"">>), Str(<<"a", "n">>)>>}

C7_SyllabusDecodedOrEmpty ==
    \A r \in ById :
        (Found(r) /\ IsString(StoredSyllabus(r))) =>
            LET text == StoredSyllabus(r).s
                got == Answer(r).course.syllabus
            IN  /\ Status(r) = 200
                /\ \A xs \in ItemSeqs : (text = JSONStringify(xs)) => (got = Arr(xs))
                /\ (text = Text123) => (got = Arr(Items123))
                /\ (text \in Malformed) => (got = EmptyArr)
                /\ \A d \in Decoded : (text = d[1]) => (got = d[2])
                /\ (~JSONParse(text).ok) => (got = EmptyArr)

(***************************************************************************)
(* C7 amended: for a course that is found, a stored text that encodes a    *)
(* sequence of items is returned as that sequence, in order; a non-empty   *)
(* stored text that cannot be decoded is returned as the empty sequence;   *)
(* the empty text is returned as it is, the empty string; the answer is    *)
(* 200 in every case.                                                      *)
(***************************************************************************)
C7_SyllabusDecodedOrEmptyUnlessBlank ==
    \A r \in ById :
        (Found(r) /\ IsString(StoredSyllabus(r))) =>
            LET text == StoredSyllabus(r).s
                got == Answer(r).course.syllabus
            IN  /\ Status(r) = 200
                /\ \A xs \in ItemSeqs : (text = JSONStringify(xs)) => (got = Arr(xs))
                /\ (text = Text123) => (got = Arr(Items123))
                /\ (text \in Malformed) => (got = EmptyArr)
                /\ \A d \in Decoded : (text = d[1]) => (got = d[2])
                /\ (text # <<>> /\ ~JSONParse(text).ok) => (got = EmptyArr)
                /\ (text = <<>>) => (got = Str(<<>>))

C7_Witness ==
    \E r \in ById :
        /\ Found(r)
        /\ StoredSyllabus(r) = Str(TextNotJson)
        /\ Status(r) = 200
        /\ Answer(r).course.syllabus = EmptyArr

(***************************************************************************)
(* C8: any two enrollment requests whose inserts succeeded, however their  *)
(* steps interleave, hold distinct insert ids, each has its own row in the *)
(* store under its id, and the ids they are answered with differ.          *)
(***************************************************************************)
C8_DistinctIdsNoLostUpdate ==
    \A r1 \in Enrolls, r2 \in Enrolls :
        (r1 # r2 /\ req[r1].store = "ok" /\ req[r2].store = "ok") =>
            /\ req[r1].insertId # req[r2].insertId
            /\ RowStored(r1) /\ RowStored(r2)
            /\ Cardinality(RowsWithId(req[r1].insertId)) = 1
            /\ Cardinality(RowsWithId(req[r2].insertId)) = 1
            /\ (Done(r1) /\ Done(r2)) =>
                  Answer(r1).enrollmentId # Answer(r2).enrollmentId

C8_Witness ==
    \E r1 \in Enrolls, r2 \in Enrolls :
        /\ r1 # r2
        /\ req[r1].body.courseId = req[r2].body.courseId
        /\ req[r1].insertId = 1 /\ req[r1].pc = "inserted"
        /\ Answered(r2, 201) /\ req[r2].insertId = 2
        /\ Len(enrollments) = 2

(***************************************************************************)
(* C9: every step keeps the stored enrollment rows as they are (a step     *)
(* only ever appends), keeps the courses as they are, and leaves as many   *)
(* rows as there are requests whose insert succeeded; once no request is   *)
(* in flight that is the number of 201 answers; a step of one of the two   *)
(* course read routes leaves the enrollments unchanged.                    *)
(***************************************************************************)
Inserted(q) == {r \in Reqs : q[r].route = "enroll" /\ q[r].store = "ok"}
Created(q) ==
    {r \in Reqs : q[r].route = "enroll" /\ q[r].pc = "done"
                  /\ q[r].responses[1].status = 201}
Quiet(q) == \A r \in Reqs : q[r].pc \in {"idle", "done", "uncaught"}

C9_Step ==
    /\ Len(enrollments') >= Len(enrollments)
    /\ \A i \in 1..Len(enrollments) : enrollments'[i] = enrollments[i]
    /\ courses' = courses
    /\ Len(enrollments') = Cardinality(Inserted(req'))
    /\ Quiet(req') => (Len(enrollments') = Cardinality(Created(req')))
    /\ \A r \in Reqs :
          (req'[r] # req[r] /\ req'[r].route \in {"list", "byId"}) =>
              (enrollments' = enrollments)

C9_RowsCreatedOnceNeverChanged == [][C9_Step]_vars

C9_Witness ==
    \E r1 \in Enrolls, r2 \in ById :
        /\ Answered(r1, 201)
        /\ Answered(r2, 200)
        /\ Len(enrollments) = 1
        /\ enrollments[1] = RowOf(r1)

(***************************************************************************)
(* C10: on the three routes every error is caught inside the handler: no   *)
(* request ends with an error thrown out of its handler, and a finished    *)
(* request has sent exactly one response, its status one of 200, 201,      *)
(* 400, 404 and 500.                                                       *)
(***************************************************************************)
C10_NoErrorEscapes ==
    \A r \in Reqs :
        /\ req[r].pc # "uncaught"
        /\ Done(r) =>
              /\ Len(req[r].responses) = 1
              /\ Status(r) \in {200, 201, 400, 404, 500}

====
